---- MODULE Spec2Model ----
(***************************************************************************)
(* Model of makeboard.py: export of one copper layer of a KiCad board as   *)
(* a filled-polygon SVG.  The host (pcbnew) is the environment: which      *)
(* methods its objects offer and which of its calls raise are inputs,      *)
(* what the script does with the answers is translated from the source.    *)
(*                                                                         *)
(* Lengths are fixed-point integers counted in internal units (IU), so     *)
(* a value "in mm" is the same integer read with IU_PER_MM units per mm.   *)
(* Sequences are 1-based: index i here is index i-1 of the source.         *)
(***************************************************************************)
EXTENDS Integers, Sequences, FiniteSets, TLC

VARIABLES
    pc,          \* position of main(), or "call"/"ret" of a function on its own
    err,         \* the error main() ended with, "none" otherwise
    layerNames,  \* board: layer slot -> layer name
    lookup,      \* board.GetLayerID: "ok" (answers) or "raise"
    includeZones, \* the INCLUDE_ZONES setting
    budget,      \* how many more items the board may still turn out to hold
    lid,         \* the resolved layer id
    methods,     \* union methods the host polygon-set type offers
    combined,    \* the accumulated polygon set
    added,       \* main's counter of contributed items
    unions,      \* ghost: union calls that completed
    called,      \* ghost: methods called by the last poly_boolean_add
    lastFail,    \* ghost: "none", "convert" or "union": the last per-item failure
    dropped,     \* ghost: items never looked at because another item's call raised
    box,         \* [minx, miny, maxx, maxy, width, height] after margin expansion
    paths,       \* the serialized paths
    file,        \* the output file: [writes, doc]
    fin,         \* a function on its own: the input
    fout         \* a function on its own: the result

mainVars == <<err, layerNames, lookup, includeZones, budget, lid, methods, combined, added, unions, called, lastFail, dropped, box,
              paths, file>>
vars == <<pc, mainVars, fin, fout>>

(* ---------------- user settings and host constants ---------------- *)
LAYER_NAME == "F.Cu"
IU_PER_MM == 1000000
MAX_ERROR_MM == IU_PER_MM \div 50
MARGIN_MM == IU_PER_MM
PCB_LAYER_ID_COUNT == 3
UNDEFINED_LAYER == -1
MaxItems == 2
MaxPolys == 2

LayerIds == 0 .. (PCB_LAYER_ID_COUNT - 1)

(* ---------------- small helpers ---------------- *)
Range(s) == {s[i] : i \in 1 .. Len(s)}

RECURSIVE Flatten(_)
Flatten(ss) == IF ss = <<>> THEN <<>> ELSE Head(ss) \o Flatten(Tail(ss))

iu_from_mm(mm) == mm
mm_from_iu(iu) == iu

(* str.upper() on the letters class names are written with *)
Upper(c) ==
    CASE c = "a" -> "A" [] c = "i" -> "I" [] c = "v" -> "V"
      [] c = "d" -> "D" [] c = "p" -> "P" [] OTHER -> c

UpperStr(s) == [i \in 1 .. Len(s) |-> Upper(s[i])]

(* the `in` operator on strings: pat occurs as a substring of s *)
Contains(s, pat) ==
    \E i \in 1 .. (Len(s) - Len(pat) + 1) : SubSeq(s, i, i + Len(pat) - 1) = pat

VIA == <<"V", "I", "A">>

(* ---------------- get_layer_id ---------------- *)
NameOnBoard(names, name) == \E l \in LayerIds : names[l] = name

(* board.GetLayerID of the host: the first slot carrying the name, the
   undefined-layer value when there is none *)
HostGetLayerID(names, name) ==
    IF NameOnBoard(names, name)
    THEN CHOOSE l \in LayerIds : names[l] = name /\ \A k \in LayerIds : names[k] = name => l <= k
    ELSE UNDEFINED_LAYER

RECURSIVE ScanLayers(_, _, _)
ScanLayers(names, name, l) ==
    IF l >= PCB_LAYER_ID_COUNT THEN [ok |-> FALSE, id |-> UNDEFINED_LAYER]
    ELSE IF names[l] = name THEN [ok |-> TRUE, id |-> l]
    ELSE ScanLayers(names, name, l + 1)

get_layer_id(names, direct, name) ==
    IF direct = "ok"
    THEN [ok |-> TRUE, id |-> HostGetLayerID(names, name)]
    ELSE ScanLayers(names, name, 0)

(* ---------------- poly_boolean_add ---------------- *)
UnionFns == <<"BooleanAdd", "BooleanAddTo", "Add", "Append">>

RECURSIVE FirstMethod(_, _)
FirstMethod(offered, i) ==
    IF i > Len(UnionFns) THEN 0
    ELSE IF UnionFns[i] \in offered THEN i
    ELSE FirstMethod(offered, i + 1)

(* the last offered method instead of the first *)
RECURSIVE LastMethod(_, _)
LastMethod(offered, i) ==
    IF i > Len(UnionFns) THEN 0
    ELSE LET later == LastMethod(offered, i + 1)
         IN  IF later # 0 THEN later ELSE IF UnionFns[i] \in offered THEN i ELSE 0

poly_boolean_add_last(dst, src, offered, raises) ==
    LET i == LastMethod(offered, 1)
    IN  IF i = 0 THEN [ok |-> FALSE, dst |-> dst, called |-> <<>>]
        ELSE IF raises THEN [ok |-> FALSE, dst |-> dst, called |-> <<UnionFns[i]>>]
        ELSE [ok |-> TRUE, dst |-> dst \o src, called |-> <<UnionFns[i]>>]

(* dst, src: polygon sets; offered: the methods dst has; raises: the host
   call itself raises.  The host union is kept as the polygons of both. *)
poly_boolean_add(dst, src, offered, raises) ==
    LET i == FirstMethod(offered, 1)
    IN  IF i = 0 THEN [ok |-> FALSE, dst |-> dst, called |-> <<>>]
        ELSE IF raises THEN [ok |-> FALSE, dst |-> dst, called |-> <<UnionFns[i]>>]
        ELSE [ok |-> TRUE, dst |-> dst \o src, called |-> <<UnionFns[i]>>]

(* ---------------- item_on_layer ---------------- *)
(* item.IsOnLayer, item.GetLayer: "missing", "raise" or "ok";
   item.onLayers: the layers IsOnLayer answers yes for; item.layer: what
   GetLayer returns; item.cls: what GetClass returns, <<>> when it raises *)
(* the via test ahead of the two layer questions *)
ItemOnLayerRun_viaFirst(item, l) ==
    IF item.GetClass = "ok" /\ Contains(UpperStr(item.cls), VIA)
    THEN [value |-> TRUE, asked |-> <<3>>]
    ELSE IF item.IsOnLayer = "ok" THEN [value |-> l \in item.onLayers, asked |-> <<1>>]
    ELSE IF item.GetLayer = "ok" THEN [value |-> item.layer = l, asked |-> <<2>>]
    ELSE [value |-> FALSE, asked |-> <<3>>]

(* value: what the predicate returns; asked: the tiers whose host call was
   made, in order (1 IsOnLayer, 2 GetLayer, 3 GetClass) *)
ItemOnLayerRun(item, l) ==
    IF item.IsOnLayer = "ok" THEN [value |-> l \in item.onLayers, asked |-> <<1>>]
    ELSE LET a1 == IF item.IsOnLayer = "raise" THEN <<1>> ELSE <<>>
         IN  IF item.GetLayer = "ok" THEN [value |-> item.layer = l, asked |-> a1 \o <<2>>]
             ELSE LET a2 == a1 \o (IF item.GetLayer = "raise" THEN <<2>> ELSE <<>>)
                  IN  IF item.GetClass = "ok" /\ Contains(UpperStr(item.cls), VIA)
                      THEN [value |-> TRUE, asked |-> a2 \o <<3>>]
                      ELSE [value |-> FALSE, asked |-> a2 \o <<3>>]

item_on_layer(item, l) == ItemOnLayerRun(item, l).value

(* ---------------- transform_to_polyset ---------------- *)
Signatures == <<"ps,0,err", "ps,0,err,True", "ps,0,err,False">>

(* item.sigs: the set of signatures the host accepts for this item;
   item.shape: the polygon set the host conversion fills in *)
RECURSIVE TryTransform(_, _, _)
TryTransform(item, i, tried) ==
    IF i > Len(Signatures) THEN [ok |-> FALSE, ps |-> <<>>, calls |-> tried]
    ELSE IF Signatures[i] \in item.sigs
         THEN [ok |-> TRUE, ps |-> item.shape, calls |-> Append(tried, Signatures[i])]
         ELSE TryTransform(item, i + 1, Append(tried, Signatures[i]))

(* the first signature is never tried *)
transform_to_polyset_skipFirst(item, max_error_iu) == TryTransform(item, 2, <<>>)

transform_to_polyset(item, max_error_iu) == TryTransform(item, 1, <<>>)

(* ---------------- zone_to_polyset ---------------- *)
SolidFns == <<"TransformSolidAreasToPolygon", "TransformSolidAreasShapesToPolygon">>

(* zone.solid: solid-area method -> "missing", "raise" or "ok" *)
RECURSIVE TrySolid(_, _, _, _)
TrySolid(zone, max_error_iu, i, tried) ==
    IF i > Len(SolidFns)
    THEN LET zps == transform_to_polyset(zone, max_error_iu)
         IN  [ok |-> zps.ok, ps |-> zps.ps, calls |-> tried \o zps.calls]
    ELSE IF zone.solid[SolidFns[i]] = "missing"
         THEN TrySolid(zone, max_error_iu, i + 1, tried)
    ELSE IF zone.solid[SolidFns[i]] = "ok"
         THEN [ok |-> TRUE, ps |-> zone.shape, calls |-> Append(tried, SolidFns[i])]
    ELSE TrySolid(zone, max_error_iu, i + 1, Append(tried, SolidFns[i]))

zone_to_polyset(zone, max_error_iu) == TrySolid(zone, max_error_iu, 1, <<>>)

(* ---------------- iter_polyset_loops ---------------- *)
(* A polygon set is a sequence of polygons [outline, holes]; a chain is a
   sequence of points <<x, y>> in IU.  A loop is named by its position
   <<p, h>>: h = 0 is the outline of polygon p, h >= 1 its h-th hole.
   api: which methods the polygon-set type offers, the one host call that
   raises (api.fail, NoFail for none) and how a chain can be read. *)
NoFail == <<"none", 0, 0>>

RECURSIVE IterHoles(_, _, _, _, _)
IterHoles(polyset, api, p, h, acc) ==
    IF h > Len(polyset[p].holes) THEN [loops |-> acc, exc |-> FALSE]
    ELSE IF api.fail = <<"Hole", p, h>> THEN [loops |-> acc, exc |-> TRUE]
    ELSE IterHoles(polyset, api, p, h + 1, Append(acc, <<p, h>>))

RECURSIVE IterPolygons(_, _, _, _)
IterPolygons(polyset, api, p, acc) ==
    IF p > Len(polyset) THEN [loops |-> acc, exc |-> FALSE]
    ELSE IF api.fail = <<"Outline", p, 0>> THEN [loops |-> acc, exc |-> TRUE]
    ELSE LET outer == Append(acc, <<p, 0>>)
         IN  IF api.HoleCount /\ api.Hole
             THEN IF api.fail = <<"HoleCount", p, 0>> THEN [loops |-> outer, exc |-> TRUE]
                  ELSE LET r == IterHoles(polyset, api, p, 1, outer)
                       IN  IF r.exc THEN r ELSE IterPolygons(polyset, api, p + 1, r.loops)
             ELSE IterPolygons(polyset, api, p + 1, outer)

RECURSIVE IterOutlines(_, _, _, _)
IterOutlines(polyset, api, i, acc) ==
    IF i > Len(polyset) THEN [loops |-> acc, exc |-> FALSE]
    ELSE IF api.fail = <<"Outline", i, 0>> THEN [loops |-> acc, exc |-> TRUE]
    ELSE IterOutlines(polyset, api, i + 1, Append(acc, <<i, 0>>))

(* loops: what the generator yields, in order; raised: it ends by raising *)
iter_polyset_loops(polyset, api) ==
    LET bestCase == api.PolygonCount /\ api.Outline
        best == IF ~bestCase THEN [loops |-> <<>>, exc |-> TRUE]
                ELSE IF api.fail = <<"PolygonCount", 0, 0>> THEN [loops |-> <<>>, exc |-> TRUE]
                ELSE IterPolygons(polyset, api, 1, <<>>)
    IN  IF bestCase /\ ~best.exc THEN [loops |-> best.loops, raised |-> FALSE]
        ELSE IF api.OutlineCount /\ api.Outline
             THEN IF api.fail = <<"OutlineCount", 0, 0>> THEN [loops |-> best.loops, raised |-> TRUE]
                  ELSE LET r == IterOutlines(polyset, api, 1, best.loops)
                       IN  [loops |-> r.loops, raised |-> r.exc]
        ELSE [loops |-> best.loops, raised |-> TRUE]

ChainAt(polyset, ref) ==
    IF ref[2] = 0 THEN polyset[ref[1]].outline ELSE polyset[ref[1]].holes[ref[2]]

(* ---------------- chain_to_points_mm ---------------- *)
(* api.chain: "indexed" (PointCount/CPoint), "iter" (the chain iterates)
   or "none" (neither: the iteration raises and no point is read) *)
chain_to_points_mm(chain, dx_mm, dy_mm, api) ==
    IF api.chain = "indexed"
    THEN [i \in 1 .. Len(chain) |-> <<mm_from_iu(chain[i][1]) + dx_mm, mm_from_iu(chain[i][2]) + dy_mm>>]
    ELSE IF api.chain = "iter"
    THEN [i \in 1 .. Len(chain) |-> <<mm_from_iu(chain[i][1]) + dx_mm, mm_from_iu(chain[i][2]) + dy_mm>>]
    ELSE <<>>

(* ---------------- polyset_bounds_mm ---------------- *)
(* BIG stands for the 1e18 mm of the source and NEARBIG for its 1e17: values
   above every coordinate, scaled to fit 32-bit integers *)
BIG == 2000000000
NEARBIG == 200000000

RECURSIVE FoldBounds(_, _)
FoldBounds(pts, b) ==
    IF pts = <<>> THEN b
    ELSE LET x == Head(pts)[1]
             y == Head(pts)[2]
         IN  FoldBounds(Tail(pts),
                 [minx |-> IF x < b.minx THEN x ELSE b.minx,
                  miny |-> IF y < b.miny THEN y ELSE b.miny,
                  maxx |-> IF x > b.maxx THEN x ELSE b.maxx,
                  maxy |-> IF y > b.maxy THEN y ELSE b.maxy])

RECURSIVE BoundsOfLoops(_, _, _, _)
BoundsOfLoops(polyset, api, loops, b) ==
    IF loops = <<>> THEN b
    ELSE BoundsOfLoops(polyset, api, Tail(loops),
             FoldBounds(chain_to_points_mm(ChainAt(polyset, Head(loops)), 0, 0, api), b))

(* ok = FALSE with why = "iter": the loop generator raised;
   ok = FALSE with why = "empty": "Bounds failed: polyset appears empty." *)
polyset_bounds_mm(polyset, api) ==
    LET it == iter_polyset_loops(polyset, api)
        b == BoundsOfLoops(polyset, api, it.loops,
                 [minx |-> BIG, miny |-> BIG, maxx |-> -BIG, maxy |-> -BIG])
    IN  IF it.raised THEN [ok |-> FALSE, why |-> "iter", b |-> b]
        ELSE IF b.minx > NEARBIG THEN [ok |-> FALSE, why |-> "empty", b |-> b]
        ELSE [ok |-> TRUE, why |-> "", b |-> b]

(* ---------------- polyset_to_svg_paths ---------------- *)
(* ":.4f": a length printed with 4 decimals is a whole number of FMT_UNIT
   internal units, rounded to nearest (the model draws no half-way value) *)
FMT_UNIT == IU_PER_MM \div 10000
Fmt4(v) == (v + (FMT_UNIT \div 2)) \div FMT_UNIT

(* a path is the sequence of its commands [op, x, y] *)
PathOf(pts) ==
    <<[op |-> "M", x |-> Fmt4(pts[1][1]), y |-> Fmt4(pts[1][2])]>>
    \o [i \in 1 .. (Len(pts) - 1) |-> [op |-> "L", x |-> Fmt4(pts[i + 1][1]), y |-> Fmt4(pts[i + 1][2])]]
    \o <<[op |-> "Z", x |-> 0, y |-> 0]>>

RECURSIVE PathsOfLoops(_, _, _, _, _, _)
PathsOfLoops(polyset, api, loops, dx_mm, dy_mm, acc) ==
    IF loops = <<>> THEN acc
    ELSE LET pts == chain_to_points_mm(ChainAt(polyset, Head(loops)), dx_mm, dy_mm, api)
         IN  IF Len(pts) < 3
             THEN PathsOfLoops(polyset, api, Tail(loops), dx_mm, dy_mm, acc)
             ELSE PathsOfLoops(polyset, api, Tail(loops), dx_mm, dy_mm, Append(acc, PathOf(pts)))

(* loops of two points are kept *)
RECURSIVE PathsOfLoops_keep2(_, _, _, _, _, _)
PathsOfLoops_keep2(polyset, api, loops, dx_mm, dy_mm, acc) ==
    IF loops = <<>> THEN acc
    ELSE LET pts == chain_to_points_mm(ChainAt(polyset, Head(loops)), dx_mm, dy_mm, api)
         IN  IF Len(pts) < 2
             THEN PathsOfLoops_keep2(polyset, api, Tail(loops), dx_mm, dy_mm, acc)
             ELSE PathsOfLoops_keep2(polyset, api, Tail(loops), dx_mm, dy_mm, Append(acc, PathOf(pts)))

polyset_to_svg_paths_keep2(polyset, dx_mm, dy_mm, api) ==
    LET it == iter_polyset_loops(polyset, api)
    IN  [ok |-> ~it.raised, paths |-> PathsOfLoops_keep2(polyset, api, it.loops, dx_mm, dy_mm, <<>>)]

polyset_to_svg_paths(polyset, dx_mm, dy_mm, api) ==
    LET it == iter_polyset_loops(polyset, api)
    IN  [ok |-> ~it.raised, paths |-> PathsOfLoops(polyset, api, it.loops, dx_mm, dy_mm, <<>>)]

(* ---------------- inputs the specifications draw from ---------------- *)
Tri == [outline |-> << <<110, -280>>, <<520, -280>>, <<110, 410>> >>, holes |-> <<>>]
Sq == [outline |-> << <<-320, -320>>, <<610, -320>>, <<610, 610>>, <<-320, 610>> >>,
       holes |-> << << <<-110, -110>>, <<220, -110>>, <<220, 220>> >> >>]
Deg == [outline |-> << <<10, 20>>, <<120, 210>> >>, holes |-> <<>>]
Two == [outline |-> << <<0, 0>>, <<900, 0>>, <<900, 900>>, <<0, 900>> >>,
        holes |-> << << <<100, 100>>, <<200, 100>>, <<200, 200>> >>,
                     << <<500, 500>>, <<600, 610>> >> >>]
Nil == [outline |-> <<>>, holes |-> <<>>]
Polygons == {Tri, Sq, Deg, Two, Nil}

RECURSIVE SeqsUpTo(_, _)
SeqsUpTo(S, n) ==
    IF n = 0 THEN {<<>>}
    ELSE LET shorter == SeqsUpTo(S, n - 1)
         IN  shorter \cup {Append(q, e) : q \in {r \in shorter : Len(r) = n - 1}, e \in S}

Polysets == SeqsUpTo(Polygons, MaxPolys)

FailCalls(polyset) ==
    {NoFail, <<"PolygonCount", 0, 0>>, <<"OutlineCount", 0, 0>>}
    \cup {<<"Outline", p, 0>> : p \in 1 .. Len(polyset)}
    \cup {<<"HoleCount", p, 0>> : p \in 1 .. Len(polyset)}
    \cup UNION {{<<"Hole", p, h>> : h \in 1 .. Len(polyset[p].holes)} : p \in 1 .. Len(polyset)}

ApiFlags ==
    [PolygonCount : BOOLEAN, Outline : BOOLEAN, HoleCount : BOOLEAN, Hole : BOOLEAN,
     OutlineCount : BOOLEAN]

MkApi(f, fail, chain) ==
    [PolygonCount |-> f.PolygonCount, Outline |-> f.Outline, HoleCount |-> f.HoleCount,
     Hole |-> f.Hole, OutlineCount |-> f.OutlineCount, fail |-> fail, chain |-> chain]

FullFlags ==
    [PolygonCount |-> TRUE, Outline |-> TRUE, HoleCount |-> TRUE, Hole |-> TRUE,
     OutlineCount |-> TRUE]

ChainApis == {"indexed", "iter", "none"}

ClassNames ==
    { <<"P", "C", "B", "_", "V", "I", "A">>, <<"v", "i", "a">>, <<"P", "a", "d", "V", "i", "a">>,
      <<"P", "C", "B", "_", "P", "A", "D">>, <<"V", "I">>, <<>> }
ViaClassNames ==
    { <<"P", "C", "B", "_", "V", "I", "A">>, <<"v", "i", "a">>, <<"P", "a", "d", "V", "i", "a">> }

Shapes == {<<>>, <<Sq>>, <<Tri, Deg>>}
AllSigs == Range(Signatures)
NoSolid == [f \in Range(SolidFns) |-> "missing"]

(* every record the enumerating loops of main() and the converters read *)
Item(isOn, onLayers, getLayer, layer, getClass, cls, sigs, solid, shape, unionRaises) ==
    [IsOnLayer |-> isOn, onLayers |-> onLayers, GetLayer |-> getLayer, layer |-> layer,
     GetClass |-> getClass, cls |-> cls, GetLayerSet |-> "raise", layerSet |-> {},
     sigs |-> sigs, solid |-> solid, shape |-> shape, unionRaises |-> unionRaises]

(* ---------------- state outside the part a specification runs ---------------- *)
NoBox == [minx |-> 0, miny |-> 0, maxx |-> 0, maxy |-> 0, width |-> 0, height |-> 0]
NoFile == [writes |-> 0, doc |-> <<>>]
NoArg == [f |-> "none"]

MainIdle ==
    /\ err = "none" /\ layerNames = [l \in LayerIds |-> LAYER_NAME] /\ lookup = "ok"
    /\ includeZones = FALSE /\ budget = 0
    /\ lid = UNDEFINED_LAYER /\ methods = {} /\ combined = <<>> /\ added = 0 /\ unions = 0
    /\ called = <<>> /\ lastFail = "none" /\ dropped = 0 /\ box = NoBox /\ paths = <<>>
    /\ file = NoFile

(* ---------------- item_on_layer on its own ---------------- *)
OnLayerItems ==
    {Item(a, on, g, l, c, cls, AllSigs, NoSolid, <<>>, FALSE) :
        a \in {"missing", "raise", "ok"}, on \in {{}, {0}, {1}},
        g \in {"missing", "raise", "ok"}, l \in {0, 1, UNDEFINED_LAYER},
        c \in {"raise", "ok"}, cls \in ClassNames}

InitOnLayer ==
    /\ pc = "call" /\ MainIdle /\ fout = NoArg
    /\ fin \in [f : {"item_on_layer"}, item : OnLayerItems, lid : {0, 1, UNDEFINED_LAYER}]

CallItemOnLayer ==
    /\ pc = "call" /\ fin.f = "item_on_layer"
    /\ fout' = ItemOnLayerRun(fin.item, fin.lid)
    /\ pc' = "ret"
    /\ UNCHANGED <<mainVars, fin>>

SpecOnLayer == InitOnLayer /\ [][CallItemOnLayer]_vars

(* ---------------- the converters on their own ---------------- *)
ConvItems ==
    {Item("ok", {0}, "ok", 0, "ok", <<>>, sigs, solid, shape, FALSE) :
        sigs \in SUBSET AllSigs,
        solid \in [Range(SolidFns) -> {"missing", "raise", "ok"}],
        shape \in Shapes}

InitConv ==
    /\ pc = "call" /\ MainIdle /\ fout = NoArg
    /\ fin \in [f : {"convert"}, item : ConvItems]

CallTransform ==
    /\ pc = "call" /\ fin.f = "convert"
    /\ fout' = transform_to_polyset(fin.item, iu_from_mm(MAX_ERROR_MM))
    /\ pc' = "ret_transform"
    /\ UNCHANGED <<mainVars, fin>>

CallZone ==
    /\ pc = "call" /\ fin.f = "convert"
    /\ fout' = zone_to_polyset(fin.item, iu_from_mm(MAX_ERROR_MM))
    /\ pc' = "ret_zone"
    /\ UNCHANGED <<mainVars, fin>>

SpecConv == InitConv /\ [][CallTransform \/ CallZone]_vars

(* ---------------- the loop generator and the serializer on their own ---------------- *)
InitLoops ==
    /\ pc = "call" /\ MainIdle /\ fout = NoArg
    /\ \E ps \in Polysets, f \in ApiFlags :
         \E fail \in FailCalls(ps) :
            fin = [f |-> "loops", polyset |-> ps, api |-> MkApi(f, fail, "indexed"),
                   dx |-> 0, dy |-> 0]

CallIterLoops ==
    /\ pc = "call" /\ fin.f = "loops"
    /\ fout' = iter_polyset_loops(fin.polyset, fin.api)
    /\ pc' = "ret"
    /\ UNCHANGED <<mainVars, fin>>

SpecLoops == InitLoops /\ [][CallIterLoops]_vars

Offsets == {0, 1000320, -110}

InitPaths ==
    /\ pc = "call" /\ MainIdle /\ fout = NoArg
    /\ \E ps \in Polysets, chain \in ChainApis, dx \in Offsets, dy \in Offsets,
          holes \in BOOLEAN :
         \E fail \in {NoFail} \cup {<<"HoleCount", p, 0>> : p \in 1 .. Len(ps)} :
            fin = [f |-> "paths", polyset |-> ps,
                   api |-> MkApi([FullFlags EXCEPT !.Hole = holes], fail, chain),
                   dx |-> dx, dy |-> dy]

CallSvgPaths ==
    /\ pc = "call" /\ fin.f = "paths"
    /\ fout' = polyset_to_svg_paths(fin.polyset, fin.dx, fin.dy, fin.api)
    /\ pc' = "ret"
    /\ UNCHANGED <<mainVars, fin>>

SpecPaths == InitPaths /\ [][CallSvgPaths]_vars

(* ---------------- main() ---------------- *)
PCB_TRACK == <<"P", "C", "B", "_", "T", "R", "A", "C", "K">>
PCB_VIA == <<"P", "C", "B", "_", "V", "I", "A">>

(* what board.GetTracks() can hold: tracks and vias *)
BoardTracks ==
    { Item("ok", LayerIds, "ok", 0, "ok", PCB_TRACK, AllSigs, NoSolid, <<Sq>>, FALSE),
      Item("ok", LayerIds, "ok", 0, "ok", PCB_TRACK, {Signatures[3]}, NoSolid, <<Tri, Deg>>, FALSE),
      Item("ok", LayerIds, "ok", 0, "ok", PCB_TRACK, {}, NoSolid, <<Sq>>, FALSE),
      Item("ok", LayerIds, "ok", 0, "ok", PCB_TRACK, AllSigs, NoSolid, <<Sq>>, TRUE),
      Item("ok", {}, "ok", 0, "ok", PCB_TRACK, AllSigs, NoSolid, <<Sq>>, FALSE),
      Item("missing", {}, "missing", 0, "ok", PCB_VIA, AllSigs, NoSolid, <<>>, FALSE),
      Item("missing", {}, "missing", 0, "ok", PCB_VIA, AllSigs, NoSolid, <<Sq>>, FALSE) }

(* what board.GetDrawings() can hold *)
BoardDrawings ==
    { Item("missing", {}, "ok", 0, "ok", <<>>, AllSigs, NoSolid, <<Tri, Deg>>, FALSE),
      Item("missing", {}, "ok", 1, "ok", <<>>, {Signatures[2]}, NoSolid, <<Sq>>, FALSE),
      Item("missing", {}, "ok", UNDEFINED_LAYER, "ok", <<>>, AllSigs, NoSolid, <<Sq>>, FALSE),
      Item("raise", {}, "ok", 0, "ok", <<>>, {}, NoSolid, <<Sq>>, FALSE),
      Item("ok", LayerIds, "ok", 0, "ok", <<>>, AllSigs, NoSolid, <<Tri, Deg>>, TRUE),
      Item("missing", {}, "raise", 0, "raise", <<>>, AllSigs, NoSolid, <<Sq>>, FALSE) }

(* the pads of the footprints, in enumeration order *)
BoardPads ==
    { Item("ok", LayerIds, "ok", 0, "ok", <<>>, AllSigs, NoSolid, <<Sq>>, FALSE),
      [Item("raise", {}, "ok", 0, "ok", <<>>, AllSigs, NoSolid, <<Tri, Deg>>, FALSE)
          EXCEPT !.GetLayerSet = "ok", !.layerSet = LayerIds],
      Item("raise", LayerIds, "ok", 0, "ok", <<>>, AllSigs, NoSolid, <<Sq>>, FALSE),
      Item("ok", {}, "ok", 0, "ok", <<>>, AllSigs, NoSolid, <<Sq>>, FALSE),
      Item("ok", LayerIds, "ok", 0, "ok", <<>>, {}, NoSolid, <<Sq>>, FALSE),
      Item("ok", LayerIds, "ok", 0, "ok", <<>>, AllSigs, NoSolid, <<Sq>>, TRUE) }

(* what board.Zones() can hold *)
BoardZones ==
    { Item("ok", LayerIds, "ok", l, "ok", <<>>, sg[1], sg[2], <<Sq>>, sg[3]) :
        l \in {0, 1},
        sg \in { <<{}, [NoSolid EXCEPT ![SolidFns[1]] = "ok"], FALSE>>,
                 <<AllSigs, [NoSolid EXCEPT ![SolidFns[2]] = "raise"], FALSE>>,
                 <<{}, NoSolid, FALSE>>,
                 <<AllSigs, NoSolid, TRUE>> } }
    \cup { Item("ok", LayerIds, "raise", 0, "ok", <<>>, AllSigs, NoSolid, <<Sq>>, FALSE) }

LayerConfigs ==
    {[l \in LayerIds |-> IF l = k THEN LAYER_NAME ELSE "B.Cu"] : k \in LayerIds \cup {UNDEFINED_LAYER}}

MethodSets == {{}, {"BooleanAdd"}, {"Add", "Append"}, {"BooleanAddTo", "Append"}, Range(UnionFns)}

Init ==
    /\ pc = "start" /\ err = "none"
    /\ layerNames \in LayerConfigs
    /\ lookup \in {"ok", "raise"}
    /\ includeZones \in BOOLEAN
    /\ budget = MaxItems
    /\ lid = UNDEFINED_LAYER /\ methods = {} /\ combined = <<>> /\ added = 0 /\ unions = 0
    /\ called = <<>> /\ lastFail = "none" /\ dropped = 0 /\ box = NoBox /\ paths = <<>>
    /\ file = NoFile /\ fin = NoArg /\ fout = NoArg

(* pcbnew.GetBoard() returns nothing *)
NoBoard ==
    /\ pc = "start"
    /\ pc' = "error" /\ err' = "NoBoard"
    /\ UNCHANGED <<layerNames, lookup, includeZones, budget, lid, methods, combined, added,
                   unions, called, lastFail, dropped, box, paths, file, fin, fout>>

(* get_layer_id, then the empty accumulator of the host polygon-set type *)
Start ==
    /\ pc = "start"
    /\ LET r == get_layer_id(layerNames, lookup, LAYER_NAME)
       IN  IF r.ok
           THEN /\ lid' = r.id
                /\ methods' \in MethodSets
                /\ pc' = "tracks" /\ err' = err
           ELSE /\ pc' = "error" /\ err' = "LayerNotFound"
                /\ UNCHANGED <<lid, methods>>
    /\ combined' = <<>> /\ added' = 0
    /\ UNCHANGED <<layerNames, lookup, includeZones, budget, unions, called, lastFail,
                   dropped, box, paths, file, fin, fout>>

pad_on_layer(pad, l) ==
    IF pad.IsOnLayer = "ok" THEN l \in pad.onLayers
    ELSE IF pad.GetLayerSet = "ok" THEN l \in pad.layerSet
    ELSE FALSE

zone_on_layer(z, l) == z.GetLayer = "ok" /\ z.layer = l

OnLayer(kind, item, l) ==
    CASE kind = "pad" -> pad_on_layer(item, l)
      [] kind = "zone" -> zone_on_layer(item, l)
      [] OTHER -> item_on_layer(item, l)

Convert(kind, item, max_error_iu) ==
    IF kind = "zone" THEN zone_to_polyset(item, max_error_iu)
    ELSE transform_to_polyset(item, max_error_iu)

(* one `for` loop of main over the items of one kind.  acc holds combined,
   added and the ghosts; acc.exc: an exception left the loop. *)
RECURSIVE RunLoop(_, _, _, _, _)
RunLoop(items, kind, l, offered, acc) ==
    IF items = <<>> THEN acc
    ELSE LET item == Head(items)
         IN  IF ~OnLayer(kind, item, l) THEN RunLoop(Tail(items), kind, l, offered, acc)
             ELSE LET ps == Convert(kind, item, iu_from_mm(MAX_ERROR_MM))
                  IN  IF ~ps.ok
                      THEN RunLoop(Tail(items), kind, l, offered, [acc EXCEPT !.lastFail = "convert"])
                      ELSE LET u == poly_boolean_add(acc.combined, ps.ps, offered, item.unionRaises)
                           IN  IF u.ok
                               THEN RunLoop(Tail(items), kind, l, offered,
                                        [acc EXCEPT !.combined = u.dst, !.added = @ + 1,
                                                    !.unions = @ + 1, !.called = u.called])
                               ELSE [acc EXCEPT !.called = u.called, !.lastFail = "union",
                                                !.dropped = @ + (Len(items) - 1), !.exc = TRUE]

Acc ==
    [combined |-> combined, added |-> added, unions |-> unions, called |-> called,
     lastFail |-> lastFail, dropped |-> dropped, exc |-> FALSE]

Store(acc) ==
    /\ combined' = acc.combined /\ added' = acc.added /\ unions' = acc.unions
    /\ called' = acc.called /\ lastFail' = acc.lastFail /\ dropped' = acc.dropped

Fixed == <<layerNames, lookup, includeZones, lid, methods, box, paths, file, fin, fout>>

(* ---- 1) tracks + vias; the try around the loop swallows the exception of a
        union, which ends the loop (one of the list call leaves the list empty) ---- *)
Tracks ==
    /\ pc = "tracks"
    /\ \E items \in SeqsUpTo(BoardTracks, budget) :
         /\ Store(RunLoop(items, "track", lid, methods, Acc))
         /\ budget' = budget - Len(items)
    /\ pc' = "drawings"
    /\ UNCHANGED <<err, Fixed>>

(* ---- 2) drawings ---- *)
Drawings ==
    /\ pc = "drawings"
    /\ \E items \in SeqsUpTo(BoardDrawings, budget) :
         /\ Store(RunLoop(items, "drawing", lid, methods, Acc))
         /\ budget' = budget - Len(items)
    /\ pc' = "pads"
    /\ UNCHANGED <<err, Fixed>>

(* ---- 3) pads: nothing catches an exception here ---- *)
Pads ==
    /\ pc = "pads"
    /\ \E items \in SeqsUpTo(BoardPads, budget) :
         /\ LET acc == RunLoop(items, "pad", lid, methods, Acc)
            IN  /\ Store(acc)
                /\ IF acc.exc THEN pc' = "error" /\ err' = "UnionRaised"
                   ELSE pc' = "zones" /\ err' = err
         /\ budget' = budget - Len(items)
    /\ UNCHANGED Fixed

(* ---- 4) zones, if INCLUDE_ZONES ---- *)
Zones ==
    /\ pc = "zones"
    /\ IF includeZones
       THEN \E items \in SeqsUpTo(BoardZones, budget) :
               /\ Store(RunLoop(items, "zone", lid, methods, Acc))
               /\ budget' = budget - Len(items)
       ELSE UNCHANGED <<combined, added, unions, called, lastFail, dropped, budget>>
    /\ pc' = "check"
    /\ UNCHANGED <<err, Fixed>>

(* the counter is never found to be zero *)
CheckAdded_never ==
    /\ pc = "check"
    /\ pc' = "export" /\ err' = err
    /\ UNCHANGED <<layerNames, lookup, includeZones, budget, lid, methods, combined, added,
                   unions, called, lastFail, dropped, box, paths, file, fin, fout>>

(* ---- if added == 0 ---- *)
CheckAdded ==
    /\ pc = "check"
    /\ IF added = 0 THEN pc' = "error" /\ err' = "NothingExported"
                    ELSE pc' = "export" /\ err' = err
    /\ UNCHANGED <<layerNames, lookup, includeZones, budget, lid, methods, combined, added,
                   unions, called, lastFail, dropped, box, paths, file, fin, fout>>

(* the margin taken off the upper edges instead of added *)
ExpandBox_shrinkMax(b) ==
    LET minx == b.minx - MARGIN_MM
        miny == b.miny - MARGIN_MM
        maxx == b.maxx - MARGIN_MM
        maxy == b.maxy - MARGIN_MM
    IN  [minx |-> minx, miny |-> miny, maxx |-> maxx, maxy |-> maxy,
         width |-> maxx - minx, height |-> maxy - miny]

(* ---- bounds + margin + shift, then the paths ---- *)
ExpandBox(b) ==
    LET minx == b.minx - MARGIN_MM
        miny == b.miny - MARGIN_MM
        maxx == b.maxx + MARGIN_MM
        maxy == b.maxy + MARGIN_MM
    IN  [minx |-> minx, miny |-> miny, maxx |-> maxx, maxy |-> maxy,
         width |-> maxx - minx, height |-> maxy - miny]

MainFlags ==
    { FullFlags,
      [FullFlags EXCEPT !.HoleCount = FALSE],
      [FullFlags EXCEPT !.PolygonCount = FALSE],
      [FullFlags EXCEPT !.PolygonCount = FALSE, !.OutlineCount = FALSE] }

Export ==
    /\ pc = "export"
    /\ \E f \in MainFlags, fail \in FailCalls(combined), chain \in ChainApis :
         LET api == MkApi(f, fail, chain)
             bounds == polyset_bounds_mm(combined, api)
             b == ExpandBox(bounds.b)
             svgp == polyset_to_svg_paths(combined, -b.minx, -b.miny, api)
         IN  IF ~bounds.ok
             THEN /\ pc' = "error"
                  /\ err' = IF bounds.why = "empty" THEN "BoundsEmpty" ELSE "LoopsRaised"
                  /\ UNCHANGED <<box, paths>>
             ELSE IF ~svgp.ok
             THEN /\ pc' = "error" /\ err' = "LoopsRaised" /\ box' = b /\ paths' = paths
             ELSE /\ pc' = "write" /\ err' = err /\ box' = b /\ paths' = svgp.paths
    /\ UNCHANGED <<layerNames, lookup, includeZones, budget, lid, methods, combined, added,
                   unions, called, lastFail, dropped, file, fin, fout>>

(* ---- the document, the file name, the write ---- *)
Line(tag, w, h, d) == [tag |-> tag, w |-> w, h |-> h, d |-> d]

SvgDoc(b, ps) ==
    << Line("xml", 0, 0, <<>>), Line("svg", Fmt4(b.width), Fmt4(b.height), <<>>),
       Line("g", 0, 0, <<>>) >>
    \o [i \in 1 .. Len(ps) |-> Line("path", 0, 0, ps[i])]
    \o << Line("/g/svg", 0, 0, <<>>) >>

Write ==
    /\ pc = "write"
    /\ \E pcb_path \in {"", "board.kicad_pcb"} :
         IF pcb_path = ""
         THEN pc' = "error" /\ err' = "NoFilename" /\ file' = file
         ELSE /\ pc' = "done" /\ err' = err
              /\ file' = [writes |-> file.writes + 1, doc |-> SvgDoc(box, paths)]
    /\ UNCHANGED <<layerNames, lookup, includeZones, budget, lid, methods, combined, added,
                   unions, called, lastFail, dropped, box, paths, fin, fout>>

Next ==
    \/ NoBoard \/ Start \/ Tracks \/ Drawings \/ Pads \/ Zones
    \/ CheckAdded \/ Export \/ Write

Spec == Init /\ [][Next]_vars

(* ======================= the claims ======================= *)
Ended == pc \in {"done", "error"}
Resolved == pc # "start" /\ err \notin {"NoBoard", "LayerNotFound"}

DocIsComplete ==
    /\ Len(file.doc) = Len(paths) + 4
    /\ file.doc[1].tag = "xml" /\ file.doc[2].tag = "svg" /\ file.doc[3].tag = "g"
    /\ \A i \in 1 .. Len(paths) : file.doc[3 + i].tag = "path" /\ file.doc[3 + i].d = paths[i]
    /\ file.doc[Len(file.doc)].tag = "/g/svg"

(* C1: the output file is written at most once and only when no fatal
   condition holds (no board, layer not on the board, no item contributed,
   empty bounds, no file name); an error state has no file; a written file
   holds the whole document. *)
C1_WrittenOnlyWithoutFatal ==
    /\ file.writes <= 1
    /\ pc = "error" => file.writes = 0
    /\ file.writes = 1 =>
          /\ pc = "done" /\ err = "none"
          /\ NameOnBoard(layerNames, LAYER_NAME)
          /\ added >= 1
          /\ box.minx <= box.maxx
          /\ DocIsComplete

(* C2: when no layer of the board carries the requested name the run stops
   with the layer-not-found error before anything is enumerated or written;
   a returned id is an existing layer carrying the requested name. *)
C2_LayerResolvedOrFails ==
    (pc # "start" /\ err # "NoBoard") =>
        IF NameOnBoard(layerNames, LAYER_NAME)
        THEN err # "LayerNotFound" /\ lid \in LayerIds /\ layerNames[lid] = LAYER_NAME
        ELSE /\ pc = "error" /\ err = "LayerNotFound"
             /\ budget = MaxItems /\ unions = 0 /\ file.writes = 0

(* C3 as stated: a run on a resolved layer in which no union completed ends
   with the "nothing exported" error and no file; a file needs added >= 1;
   added counts the completed unions. *)
C3_ZeroCopperNothingExported ==
    /\ added = unions
    /\ file.writes >= 1 => added >= 1
    /\ (Ended /\ Resolved /\ unions = 0) =>
          pc = "error" /\ err = "NothingExported" /\ file.writes = 0

(* C3 amended: such a run ends in a fatal error and no file: "nothing
   exported" when it reaches the counter check, else the exception a pad's
   union raised; nothing past the check runs with added = 0. *)
C3_ZeroCopperIsFatal ==
    /\ added = unions
    /\ file.writes >= 1 => added >= 1
    /\ pc \in {"export", "write", "done"} => added >= 1
    /\ (Ended /\ Resolved /\ unions = 0) =>
          /\ pc = "error" /\ file.writes = 0
          /\ err \in {"NothingExported", "UnionRaised"}
          /\ err = "UnionRaised" => lastFail = "union"

C3_Witness ==
    pc = "error" /\ err = "NothingExported" /\ lastFail = "convert" /\ unions = 0
    /\ budget < MaxItems

(* C4: a conversion or union failure of one item costs only that item: no
   other item goes unprocessed because of it and the export is not aborted
   by it (union method present, the call raising for that item). *)
C4_FailureIsLocal ==
    (lastFail # "none" /\ methods # {}) => dropped = 0 /\ err # "UnionRaised"

(* C5: poly_boolean_add calls exactly one union method, the first offered
   among BooleanAdd, BooleanAddTo, Add, Append, and raises when none is
   offered; with none offered no run gets past the counter check and no
   file is written. *)
C5_FirstUnionMethodOrFatal ==
    /\ Len(called) <= 1
    /\ (unions > 0 \/ (lastFail = "union" /\ methods # {})) => Len(called) = 1
    /\ called # <<>> =>
          \E i \in 1 .. Len(UnionFns) :
             /\ called[1] = UnionFns[i] /\ UnionFns[i] \in methods
             /\ \A j \in 1 .. (i - 1) : UnionFns[j] \notin methods
    /\ (pc # "start" /\ methods = {}) =>
          /\ called = <<>> /\ unions = 0 /\ added = 0 /\ combined = <<>>
          /\ pc \notin {"export", "write", "done"} /\ file.writes = 0
          /\ Ended => pc = "error"

C5_Witness ==
    methods = {} /\ pc = "error" /\ err = "UnionRaised" /\ lastFail = "union"

PointsOf(polyset) ==
    UNION {Range(polyset[p].outline) \cup UNION {Range(polyset[p].holes[h]) :
                                                   h \in 1 .. Len(polyset[p].holes)} :
           p \in 1 .. Len(polyset)}

(* C6: in a run that wrote the file every point of every loop of the
   combined set lies inside the expanded box, width and height are the
   box's extents, and every emitted coordinate is between 0 and the
   emitted width (x) or height (y). *)
C6_BoundsAndTranslation ==
    pc = "done" =>
        /\ \A pt \in PointsOf(combined) :
              /\ box.minx <= pt[1] /\ pt[1] <= box.maxx
              /\ box.miny <= pt[2] /\ pt[2] <= box.maxy
        /\ box.width = box.maxx - box.minx /\ box.height = box.maxy - box.miny
        /\ file.doc[2].w = Fmt4(box.width) /\ file.doc[2].h = Fmt4(box.height)
        /\ \A i \in 1 .. Len(paths) : \A k \in 1 .. Len(paths[i]) :
              paths[i][k].op # "Z" =>
                 /\ 0 <= paths[i][k].x /\ paths[i][k].x <= file.doc[2].w
                 /\ 0 <= paths[i][k].y /\ paths[i][k].y <= file.doc[2].h

C6_Witness ==
    pc = "done" /\ Len(combined) >= 2 /\ Len(paths) >= 2
    /\ \E pt \in PointsOf(combined) : pt[1] < 0

(* the points of a chain as chain_to_points_mm can read them *)
Readable(chain, api) == IF api.chain = "none" THEN <<>> ELSE chain

(* C7: one path per yielded loop of at least 3 points, in iteration order,
   none for a shorter loop; a path is M for the first point, L for each
   further point in order, then Z. *)
C7_OnePathPerLoop ==
    (pc = "ret" /\ fin.f = "paths" /\ fout.ok) =>
        LET loops == iter_polyset_loops(fin.polyset, fin.api).loops
            kept == SelectSeq(loops,
                        LAMBDA r : Len(Readable(ChainAt(fin.polyset, r), fin.api)) >= 3)
        IN  /\ Len(fout.paths) = Len(kept)
            /\ \A k \in 1 .. Len(kept) :
                  LET pts == ChainAt(fin.polyset, kept[k])
                      path == fout.paths[k]
                      n == Len(pts)
                  IN  /\ Len(path) = n + 1
                      /\ path[1].op = "M" /\ path[n + 1].op = "Z"
                      /\ \A i \in 2 .. n : path[i].op = "L"
                      /\ \A i \in 1 .. n :
                            /\ path[i].x = Fmt4(pts[i][1] + fin.dx)
                            /\ path[i].y = Fmt4(pts[i][2] + fin.dy)

C7_Witness ==
    /\ pc = "ret" /\ fin.f = "paths" /\ fout.ok
    /\ Len(fout.paths) >= 2
    /\ Len(fout.paths) < Len(iter_polyset_loops(fin.polyset, fin.api).loops)

(* C8 as stated: the tier is chosen by which methods exist: IsOnLayer
   exists -> its answer and nothing else asked; else GetLayer exists -> the
   comparison; else via-likeness. *)
C8_TierByExistence ==
    (pc = "ret" /\ fin.f = "item_on_layer") =>
        LET item == fin.item
        IN  /\ item.IsOnLayer # "missing" =>
                  fout.value = (fin.lid \in item.onLayers) /\ fout.asked = <<1>>
            /\ (item.IsOnLayer = "missing" /\ item.GetLayer # "missing") =>
                  fout.value = (item.layer = fin.lid) /\ fout.asked = <<2>>
            /\ (item.IsOnLayer = "missing" /\ item.GetLayer = "missing") =>
                  fout.value = (item.GetClass = "ok" /\ item.cls \in ViaClassNames)

(* C8 amended: a tier decides when its method exists and its call returns;
   a tier that is missing or raises hands over to the next one; tier 3 is
   true exactly for via-like class names; the result is always a boolean. *)
C8_TierByAnswer ==
    (pc = "ret" /\ fin.f = "item_on_layer") =>
        LET item == fin.item
        IN  /\ fout.value \in BOOLEAN
            /\ item.IsOnLayer = "ok" =>
                  fout.value = (fin.lid \in item.onLayers) /\ fout.asked = <<1>>
            /\ (item.IsOnLayer # "ok" /\ item.GetLayer = "ok") =>
                  /\ fout.value = (item.layer = fin.lid)
                  /\ 3 \notin Range(fout.asked)
            /\ (item.IsOnLayer # "ok" /\ item.GetLayer # "ok") =>
                  fout.value = (item.GetClass = "ok" /\ item.cls \in ViaClassNames)
            /\ 2 \in Range(fout.asked) => item.IsOnLayer # "ok"
            /\ 3 \in Range(fout.asked) => item.IsOnLayer # "ok" /\ item.GetLayer # "ok"

C8_Witness ==
    /\ pc = "ret" /\ fin.f = "item_on_layer"
    /\ fin.item.IsOnLayer = "raise" /\ fin.item.GetLayer = "ok"
    /\ fin.item.layer # fin.lid /\ fin.item.GetClass = "ok" /\ fin.item.cls \in ViaClassNames
    /\ fout.value = FALSE /\ fout.asked = <<1, 2>>

IsPrefix(s, t) == Len(s) <= Len(t) /\ SubSeq(t, 1, Len(s)) = s

(* C9: transform_to_polyset tries the three signatures in the fixed order,
   stops at the first that succeeds and returns its polygon set, returns no
   result exactly when all three fail; zone_to_polyset tries the available
   solid-area methods in order first and reaches the generic converter only
   when none of them succeeded. *)
C9_FirstSignatureThatWorks ==
    /\ pc = "ret_transform" =>
          /\ fout.calls # <<>> /\ IsPrefix(fout.calls, Signatures)
          /\ \A i \in 1 .. (Len(fout.calls) - 1) : fout.calls[i] \notin fin.item.sigs
          /\ fout.ok <=> fin.item.sigs # {}
          /\ fout.ok => fout.calls[Len(fout.calls)] \in fin.item.sigs /\ fout.ps = fin.item.shape
          /\ ~fout.ok => fout.calls = Signatures
    /\ pc = "ret_zone" =>
          LET solidCalls == SelectSeq(fout.calls, LAMBDA c : c \in Range(SolidFns))
              genericCalls == SelectSeq(fout.calls, LAMBDA c : c \in AllSigs)
              available == SelectSeq(SolidFns, LAMBDA f : fin.item.solid[f] # "missing")
          IN  /\ fout.calls = solidCalls \o genericCalls
              /\ IsPrefix(solidCalls, available)
              /\ \A i \in 1 .. (Len(solidCalls) - 1) : fin.item.solid[solidCalls[i]] = "raise"
              /\ genericCalls # <<>> <=> \A f \in Range(SolidFns) : fin.item.solid[f] # "ok"
              /\ genericCalls # <<>> => solidCalls = available /\ IsPrefix(genericCalls, Signatures)
              /\ genericCalls = <<>> =>
                    /\ fout.ok /\ fout.ps = fin.item.shape
                    /\ fin.item.solid[solidCalls[Len(solidCalls)]] = "ok"
              /\ fout.ok <=> (fin.item.sigs # {} \/ \E f \in Range(SolidFns) : fin.item.solid[f] = "ok")

C9_Witness ==
    /\ pc = "ret_zone"
    /\ fin.item.solid[SolidFns[1]] = "raise" /\ fin.item.solid[SolidFns[2]] = "missing"
    /\ fin.item.sigs = {Signatures[3]}
    /\ fout.ok /\ fout.calls = <<SolidFns[1]>> \o Signatures

AllLoops(polyset) ==
    Flatten([p \in 1 .. Len(polyset) |->
                <<<<p, 0>>>> \o [h \in 1 .. Len(polyset[p].holes) |-> <<p, h>>]])

(* C10: with the polygon/hole methods present, the generator yields every
   loop exactly once, each outline followed by its own holes, also when a
   host call fails part-way and the outlines-only fallback is taken. *)
C10_EveryLoopOnce ==
    (pc = "ret" /\ fin.f = "loops" /\ ~fout.raised
        /\ fin.api.PolygonCount /\ fin.api.Outline /\ fin.api.HoleCount /\ fin.api.Hole) =>
        fout.loops = AllLoops(fin.polyset)

====
